---- MODULE Spec2Model ----
(***************************************************************************)
(* Model of the database monitor (scripts/monitor-database.ts), the backup *)
(* script it calls (scripts/backup-database.ts), the command line          *)
(* scripts/manage-db-state.ts and the audit table system_status            *)
(* (migrations/20250224001000_add_system_status.sql).                      *)
(*                                                                         *)
(* Every `await` of checkSystem is a point where the event loop may run    *)
(* another timer callback, so each action below is the continuation that   *)
(* runs when one awaited call returns.                                     *)
(***************************************************************************)
EXTENDS Integers, Sequences, FiniteSets, TLC

VARIABLES
    mainpc,          \* position of start(): "new", "await_initial", "running"
    checkInterval,   \* DatabaseMonitor.checkInterval: "null" or "armed"
    lastKnownState,  \* DatabaseMonitor.lastKnownState (NULL_STATE = null)
    ticks,           \* the executions of checkSystem, by start order
    started,         \* number of checkSystem executions begun so far
    system_status,   \* rows of the table system_status, in insertion order
    rows,            \* exact row count of each critical table in the database
    now,             \* wall clock in ms since the monitor was constructed
    events,          \* adverse events and script runs so far
    budget,          \* how many of them a behaviour may hold
    dir,             \* the files of BACKUP_DIR ending in .sql.gz, in readdir order
    MAX_BACKUPS,     \* parseInt(process.env.MAX_BACKUPS || '5')
    RETENTION_DAYS,  \* parseInt(process.env.BACKUP_RETENTION_DAYS || '7')
    backup,          \* backup-database.ts run directly: the process
    cli,             \* manage-db-state.ts <command>: the process
    check,           \* checkDatabase run directly: the process
    migration,       \* run-migration.ts <file>: the process
    observed         \* what has happened so far, for the properties: whether
                     \* stop() was called, and per table the count of its latest
                     \* successful count if that raised a data-loss warning

\* what no step of the monitor changes
toolVars == <<check, migration>>
scriptVars == <<budget, MAX_BACKUPS, RETENTION_DAYS, backup, cli, toolVars>>

vars == <<mainpc, checkInterval, lastKnownState, ticks, started,
          system_status, rows, now, events, dir, scriptVars, observed>>

----------------------------------------------------------------------------
(* Bounds of the exploration *)

\* checkSystem executions explored (the initial one and the timer's)
MaxTicks == 3
\* length of the prefix of CRITICAL_TABLES that is probed
NumTables == 2
\* adverse events in one behaviour: a failed call (rpc, count, backup, insert),
\* a change of a critical table's row count, or a timer callback that starts
\* while another execution of checkSystem is still in progress
MaxEvents == 2
\* artifacts in the backup directory when backup-database.ts is run directly,
\* and the largest MAX_BACKUPS explored
MaxFiles == 3
\* age in days of the oldest such artifact, and the largest
\* BACKUP_RETENTION_DAYS explored
MaxAgeDays == 3
\* rows of system_status when manage-db-state.ts is run on its own
MaxHistory == 2
\* characters of the migration file given to run-migration.ts
MaxSqlLen == 4
\* adverse events and script runs in one behaviour in which the scripts run
\* (alone, or next to the monitor)
OpsEvents == 1

(* Program constants *)

CHECK_INTERVAL_MS == 300000
DAY_MS == 86400000
DEFAULT_MAX_BACKUPS == 5
DEFAULT_RETENTION_DAYS == 7

AllCriticalTables == <<"user_profiles", "schools", "school_users", "content">>
MinOf(a, b) == IF a < b THEN a ELSE b
CRITICAL_TABLES == SubSeq(AllCriticalTables, 1, MinOf(NumTables, Len(AllCriticalTables)))

\* row counts a critical table may hold: 90 is exactly 10% below 100,
\* 85 is more than 10% below 100 and less than 10% below 90, and a previous
\* count of 0 is falsy at line 90
Counts == {0, 85, 90, 100}

TickIds == 1..MaxTicks

----------------------------------------------------------------------------
(* Values *)

\* SQL NULL / a timestamp, as a sequence of length 0 / 1
NULL == <<>>
At(t) == <<t>>

EmptyTables == [x \in {} |-> 0]

\* const state: SystemState = { status: 'healthy', lastCheck: new Date(),
\*                              tables: {}, warnings: [], errors: [] }
\* (lastCheck is set from the clock when checkSystem is called)
NewState == [status |-> "healthy", lastCheck |-> 0, tables |-> EmptyTables,
             warnings |-> <<>>, errors |-> <<>>]

\* lastKnownState: SystemState | null = null
NULL_STATE == [status |-> "null", lastCheck |-> 0, tables |-> EmptyTables,
               warnings |-> <<>>, errors |-> <<>>]

\* a checkSystem execution: where it is suspended, the loop index into
\* CRITICAL_TABLES, its local `state`, and two observations used by the
\* properties: how often it has called backupDatabase, and whether the table
\* held no backup timestamp when it began
IdleTick == [pc |-> "idle", idx |-> 0, state |-> NewState, nbackups |-> 0,
             noBackupAtStart |-> FALSE]

\* a checkSystem execution that has returned: its locals are gone
DoneTick == [IdleTick EXCEPT !.pc = "done"]

Warning(kind, table, previous, current) ==
    [kind |-> kind, table |-> table, previous |-> previous, current |-> current]
DataLossWarning(table, previous, current) == Warning("data_loss", table, previous, current)
NoBackupHistory == Warning("No backup history found", "", 0, 0)
NoRecentBackup == Warning("No recent backup found (>24 hours)", "", 0, 0)

Err(kind, table) == [kind |-> kind, table |-> table]

Push(seq, x) == Append(seq, x)

\* a row of system_status as a client passes it to an INSERT: the columns not
\* given (error_count 0, the three timestamps NULL) have their defaults,
\* created_at is set when the row is inserted, and `via` observes the write
\* path: a direct insert, unless the row is built elsewhere
Row(status, payload, snapshot, backupTime) ==
    [status |-> status, last_known_state |-> payload, snapshot_status |-> snapshot,
     last_backup_time |-> backupTime, error_count |-> 0,
     last_reset_time |-> NULL, last_restore_time |-> NULL,
     created_at |-> NULL, via |-> "insert"]

\* log_system_event(p_status, p_state, p_error): the row it inserts
LogRow_BackupTimeAlways(p_status, p_state, clock) ==
    [Row(p_status, p_state, "none", At(clock))
        EXCEPT !.error_count = IF p_status = "error" THEN 1 ELSE 0,
               !.last_reset_time = IF p_status = "reset" THEN At(clock) ELSE NULL,
               !.last_restore_time = IF p_status = "restore" THEN At(clock) ELSE NULL,
               !.via = "log_system_event"]
LogRow(p_status, p_state, clock) ==
    [Row(p_status, p_state, "none", IF p_status = "backup" THEN At(clock) ELSE NULL)
        EXCEPT !.error_count = IF p_status = "error" THEN 1 ELSE 0,
               !.last_reset_time = IF p_status = "reset" THEN At(clock) ELSE NULL,
               !.last_restore_time = IF p_status = "restore" THEN At(clock) ELSE NULL,
               !.via = "log_system_event"]


----------------------------------------------------------------------------
(* The audit table *)

\* INSERT INTO system_status: a new row (id uuid DEFAULT uuid_generate_v4()),
\* after the BEFORE INSERT trigger count_errors has set error_count of an
\* 'error' row to COALESCE(OLD.error_count, 0) + 1, OLD being null on INSERT
\* and created_at has its default now()
Insert_ReplaceLatest(log, row, clock) ==
    IF log = <<>> THEN <<row>> ELSE [log EXCEPT ![Len(log)] = row]
Insert(log, row, clock) ==
    Append(log, [row EXCEPT !.error_count = IF row.status = "error" THEN 1 ELSE @,
                            !.created_at = At(clock)])

\* SELECT log_system_event('initialized', {message: 'System initialized', ...})
InitialRow == Head(Insert(<<>>, LogRow("initialized", "System initialized", 0), 0))

BackupTimes(log) ==
    {log[k].last_backup_time[1] : k \in {j \in 1..Len(log) : log[j].last_backup_time # NULL}}

NoBackupTime(log) == BackupTimes(log) = {}

MaxOf(S) == CHOOSE m \in S : \A x \in S : x <= m

\* .from('system_status').select('last_backup_time')
\*   .order('last_backup_time', { ascending: false }).limit(1).single()
\* PostgreSQL sorts NULLs first under ORDER BY ... DESC, and no nulls option is
\* passed: a row with a NULL last_backup_time precedes every row with a timestamp.
\* An empty table makes .single() fail, which leaves data null.
LastBackupQuery(log) ==
    IF \E k \in 1..Len(log) : log[k].last_backup_time = NULL THEN NULL
    ELSE IF log = <<>> THEN NULL
    ELSE At(MaxOf(BackupTimes(log)))

\* the rows that ORDER BY created_at DESC may put first: those whose created_at
\* is the greatest (rows that tie are returned in no specified order)
NewestRows(log) ==
    {k \in 1..Len(log) :
        \A m \in 1..Len(log) : log[m].created_at[1] <= log[k].created_at[1]}

\* getSystemStatus's query: .select('*').order('created_at', { ascending: false })
\*   .limit(1).single(); with no row .single() answers { data: null, error }
GetSystemStatus(log) ==
    IF log = <<>> THEN {[error |-> TRUE, data |-> <<>>]}
    ELSE {[error |-> FALSE, data |-> <<log[k]>>] : k \in NewestRows(log)}

\* backupDatabase's psql INSERT: status 'backup', last_backup_time CURRENT_TIMESTAMP
BackupRow(t) == [Row("backup", "backup_file", "none", At(t)) EXCEPT !.via = "psql"]

\* status: state.status === 'healthy' ? 'initialized' : 'error'
RecordStatus_AsErrorOnly(status) == IF status = "error" THEN "error" ELSE "initialized"
RecordStatus(status) == IF status = "healthy" THEN "initialized" ELSE "error"

\* the row updateSystemStatus inserts
StatusRow(state) ==
    [Row(RecordStatus(state.status), "snapshot", state.status, NULL)
        EXCEPT !.error_count = Len(state.errors)]

\* the row handleDataLoss inserts
IncidentRow(state) == Row("error", "Unexpected data loss detected", state.status, NULL)

----------------------------------------------------------------------------
(* The backup directory and backupDatabase (scripts/backup-database.ts) *)

\* a file db_backup_<timestamp>.sql.gz: its name, its mtime in ms, and its size
\* (0, or 1 for any positive size)
Artifact(name, time, size) == [name |-> name, time |-> time, size |-> size]

Names(d) == {d[k].name : k \in 1..Len(d)}

\* the name of the file a run writes: the ISO timestamp of the run makes it
\* differ from every name present
NewName(d) == IF d = <<>> THEN 1 ELSE MaxOf(Names(d)) + 1

\* fs.unlinkSync of the files named in `names`
Unlink(d, names) == SelectSeq(d, LAMBDA f : f.name \notin names)

\* what `pg_dump ... | gzip > compressedPath` leaves at compressedPath: no file,
\* a file of size 0, or a file with content
DumpResults == {"none", "empty", "written"}

AfterDump(d, name, clock, dump) ==
    IF dump = "none" THEN d
    ELSE Append(d, Artifact(name, clock, IF dump = "empty" THEN 0 ELSE 1))

\* line 89: the file exists and its size is not 0
Verified(d, name) ==
    \E k \in 1..Len(d) : d[k].name = name /\ d[k].size # 0

\* Array.prototype.sort with a comparator on time: a stable sort, here by
\* insertion; `newestFirst` is the comparator (a, b) => b.time - a.time
RECURSIVE InsertByTime(_, _, _)
InsertByTime(sorted, f, newestFirst) ==
    IF sorted = <<>> THEN <<f>>
    ELSE IF (IF newestFirst THEN Head(sorted).time >= f.time
             ELSE Head(sorted).time <= f.time)
         THEN <<Head(sorted)>> \o InsertByTime(Tail(sorted), f, newestFirst)
         ELSE <<f>> \o sorted
RECURSIVE SortByTime(_, _)
SortByTime(fs, newestFirst) ==
    IF fs = <<>> THEN <<>>
    ELSE InsertByTime(SortByTime(SubSeq(fs, 1, Len(fs) - 1), newestFirst),
                      fs[Len(fs)], newestFirst)

\* line 40: .sort((a, b) => b.time - a.time)
SortByTimeAsc(fs) == SortByTime(fs, FALSE)
SortByTimeDesc(fs) == SortByTime(fs, TRUE)

\* lines 43-44: files.length > MAX_BACKUPS ? files.slice(MAX_BACKUPS) : none
BeyondMax_OnlyNext(files, maxBackups) ==
    IF Len(files) > maxBackups THEN <<files[maxBackups + 1]>> ELSE <<>>
BeyondMax(files, maxBackups) ==
    IF Len(files) > maxBackups THEN SubSeq(files, maxBackups + 1, Len(files)) ELSE <<>>

\* lines 51-54: now - file.time > RETENTION_DAYS * 24 * 60 * 60 * 1000
Expired_OneDayLate(file, clock, retentionDays) ==
    clock - file.time > (retentionDays + 1) * DAY_MS
Expired(file, clock, retentionDays) ==
    clock - file.time > retentionDays * DAY_MS

\* lines 53-58: files.forEach over the list read at line 33, from index k on;
\* unlinkSync of a file that is no longer there throws ENOENT, which ends the
\* forEach and rejects cleanOldBackups
RECURSIVE RemoveExpired(_, _, _, _, _)
RemoveExpired(files, k, d, clock, retentionDays) ==
    IF k > Len(files) THEN [dir |-> d, threw |-> FALSE]
    ELSE IF Expired(files[k], clock, retentionDays)
         THEN IF files[k].name \in Names(d)
              THEN RemoveExpired(files, k + 1, Unlink(d, {files[k].name}),
                                 clock, retentionDays)
              ELSE [dir |-> d, threw |-> TRUE]
         ELSE RemoveExpired(files, k + 1, d, clock, retentionDays)

\* lines 32-59: the directory cleanOldBackups leaves, and whether it threw
cleanOldBackups(d, clock, maxBackups, retentionDays) ==
    LET files == SortByTimeDesc(d)
        beyond == BeyondMax(files, maxBackups)
        kept == Unlink(d, {beyond[k].name : k \in 1..Len(beyond)})
    IN RemoveExpired(files, 1, kept, clock, retentionDays)

\* lines 61-118, one whole run: the directory and the audit table it leaves
\* and the `success` of the BackupResult it returns
backupDatabase(d, log, clock, maxBackups, retentionDays, dump, psqlOk) ==
    LET name == NewName(d)
        written == AfterDump(d, name, clock, dump)
        swept == cleanOldBackups(written, clock, maxBackups, retentionDays)
    IN IF dump = "none" \/ ~Verified(written, name)
       THEN [success |-> FALSE, dir |-> written, log |-> log]
       ELSE IF swept.threw \/ ~psqlOk
       THEN [success |-> FALSE, dir |-> swept.dir, log |-> log]
       ELSE [success |-> TRUE, dir |-> swept.dir, log |-> Insert(log, BackupRow(clock), clock)]

\* backup-database.ts run directly: where the process is, the name of the file
\* it writes, and three observations of its cleanOldBackups call: the list
\* `files` it read, whether it ran and whether it threw
IdleBackup == [pc |-> "new", path |-> 0, files |-> <<>>, swept |-> FALSE,
               threw |-> FALSE, result |-> "none"]

\* checkDatabase run directly: where the process is, the tableChecks collected
\* so far (per table: whether its count call has returned, and its count and
\* error), how often backupDatabase was called, and the exit code
PendingCheck == [returned |-> FALSE, count |-> NULL, error |-> FALSE]
IdleCheck == [pc |-> "new", tableChecks |-> [t \in {} |-> PendingCheck],
              backups |-> 0, exit |-> "none"]

\* run-migration.ts <file>: where the process is, the text of the file, the
\* array `statements`, the loop index, the statements sent to execute_sql in
\* the order sent, the indices of those that returned an error, the exit code
IdleMigration == [pc |-> "new", sql |-> <<>>, statements |-> <<>>, i |-> 0,
                  executed |-> <<>>, failed |-> {}, exit |-> "none"]

\* nothing has happened yet
NothingObserved ==
    [stopCalled |-> FALSE,
     warned |-> [t \in {CRITICAL_TABLES[k] : k \in 1..Len(CRITICAL_TABLES)} |-> NULL]]

\* manage-db-state.ts <command>: where the process is, what it has printed as
\* its result (a sequence of length 0 or 1), the loop index and the tableStats
\* of checkDatabaseHealth, whether the catch block of main was entered, and the
\* exit code
IdleCli == [pc |-> "none", command |-> "", output |-> <<>>, idx |-> 0,
            tableStats |-> EmptyTables, failed |-> FALSE, exit |-> "none"]

Commands == {"status", "health", "reset", "backup"}

\* the values of the enum system_status_type that a script in the repository
\* passes to log_system_event
EventStatuses == {"initialized", "error", "reset", "backup"}

\* process.argv[2]: a command, or anything else ("help": the default case)
Arguments == Commands \cup {"help"}

----------------------------------------------------------------------------
(* The comparison against the baseline and the status rule *)

\* this.lastKnownState?.tables[table] is truthy: a baseline is held, it counted
\* the table, and the count is not 0
HasPrevious(lks, table) ==
    /\ lks # NULL_STATE
    /\ table \in DOMAIN lks.tables
    /\ lks.tables[table] # 0

\* threshold = previousCount * 0.1; count < previousCount - threshold.
\* For integer counts the double arithmetic agrees with 10*count < 9*previousCount:
\* the double 0.1 is above 1/10, so the rounded threshold is never below
\* previousCount/10 when that is an integer, and otherwise the bound is at least
\* 1/10 away from every integer.
DataLossDetected_Inclusive(previousCount, count) == 10 * count <= 9 * previousCount
DataLossDetected(previousCount, count) == 10 * count < 9 * previousCount

\* the warnings lines 90-97 push for one counted table
CompareWithBaseline_AnyEntity(lks, table, count) ==
    IF lks # NULL_STATE /\ DOMAIN lks.tables # {}
    THEN LET previousCount == IF table \in DOMAIN lks.tables THEN lks.tables[table]
                              ELSE MaxOf({lks.tables[x] : x \in DOMAIN lks.tables})
         IN IF DataLossDetected(previousCount, count)
            THEN <<DataLossWarning(table, previousCount, count)>> ELSE <<>>
    ELSE <<>>
CompareWithBaseline(lks, table, count) ==
    IF HasPrevious(lks, table) /\ DataLossDetected(lks.tables[table], count)
    THEN <<DataLossWarning(table, lks.tables[table], count)>>
    ELSE <<>>

\* lines 129-133
StatusOf_WarningFirst(state) ==
    IF Len(state.warnings) > 0 THEN "warning"
    ELSE IF Len(state.errors) > 0 THEN "error"
    ELSE state.status
StatusOf(state) ==
    IF Len(state.errors) > 0 THEN "error"
    ELSE IF Len(state.warnings) > 0 THEN "warning"
    ELSE state.status

\* lines 114-126: the warning pushed by the backup-age check, <<>> when the
\* newest backup is at most 24 hours old; a warning is always followed by
\* createBackup()
BackupAgeWarning_OnlyWhenStale(lastBackup, clock) ==
    IF lastBackup # NULL /\ clock - lastBackup[1] > DAY_MS THEN <<NoRecentBackup>>
    ELSE <<>>
BackupAgeWarning(lastBackup, clock) ==
    IF lastBackup # NULL
    THEN IF clock - lastBackup[1] > DAY_MS THEN <<NoRecentBackup>> ELSE <<>>
    ELSE <<NoBackupHistory>>

----------------------------------------------------------------------------
(* Outcomes of the awaited calls *)

\* an awaited call succeeds, or fails while the event budget lasts
Outcomes == IF events < budget THEN {TRUE, FALSE} ELSE {TRUE}

Spend(ok) == events' = IF ok THEN events ELSE events + 1

\* { count, error } of .select('*', { count: 'exact', head: true }): with
\* count: 'exact' a response without error carries a number, so `count || 0`
\* is the count and `count !== null` holds
CountResults(table) ==
    {[error |-> FALSE, count |-> rows[table]]}
        \cup (IF events < budget THEN {[error |-> TRUE, count |-> 0]} ELSE {})

\* the execution is suspended at an await (not ended, not cut off by the exit)
InFlight(i) == ticks[i].pc \notin {"idle", "done", "killed"}

Table(i) == CRITICAL_TABLES[ticks[i].idx]

SetTable(tables, table, count) ==
    [x \in DOMAIN tables \cup {table} |-> IF x = table THEN count ELSE tables[x]]

\* the for loop's next iteration, or the statement after the loop (line 107)
AfterTable(tick) ==
    IF tick.idx < Len(CRITICAL_TABLES)
    THEN [tick EXCEPT !.idx = tick.idx + 1, !.pc = "count"]
    ELSE [tick EXCEPT !.pc = "last_backup"]

\* lines 145-149: the catch block up to its await of updateSystemStatus
Catch_Rethrow(tick, error) == [tick EXCEPT !.pc = "rejected"]
Catch_KeepStatus(tick, error) ==
    [tick EXCEPT !.state.errors = Push(tick.state.errors, error),
                 !.pc = "catch_save"]
Catch(tick, error) ==
    [tick EXCEPT !.state.status = "error",
                 !.state.errors = Push(tick.state.errors, error),
                 !.pc = "catch_save"]

\* lines 82-85: the count of `table` came back with an error: push and `continue`
CountFailed_Abort(tick, table) == Catch(tick, Err("count", table))
CountFailed(tick, table) ==
    AfterTable([tick EXCEPT !.state.errors = Push(@, Err("count", table))])

\* the runs of backupDatabase possible now; called by the monitor, a run is
\* taken as one step (its own awaits are the steps of the script run directly)
BackupRuns ==
    {backupDatabase(dir, system_status, now, MAX_BACKUPS, RETENTION_DAYS, dump, psqlOk) :
        dump \in DumpResults, psqlOk \in BOOLEAN}

\* checkSystem is called at time `clock`: `state` is created and rpc('version')
\* is awaited
BeginTick(i, clock) ==
    ticks' = [ticks EXCEPT ![i] = [pc |-> "version", idx |-> 0,
                                   state |-> [NewState EXCEPT !.lastCheck = clock],
                                   nbackups |-> 0,
                                   noBackupAtStart |-> NoBackupTime(system_status)]]

----------------------------------------------------------------------------
(* start() and the timer *)

\* the monitor is constructed, the migration has been applied, no script runs
Constructed ==
    /\ mainpc = "new"
    /\ checkInterval = "null"
    /\ lastKnownState = NULL_STATE
    /\ ticks = [i \in TickIds |-> IdleTick]
    /\ started = 0
    /\ system_status = <<InitialRow>>
    /\ rows = [t \in {CRITICAL_TABLES[k] : k \in 1..Len(CRITICAL_TABLES)} |-> MaxOf(Counts)]
    /\ events = 0
    /\ backup = IdleBackup
    /\ cli = IdleCli
    /\ observed = NothingObserved
    /\ check = IdleCheck
    /\ migration = IdleMigration

\* an empty backup directory and the default retention settings
Defaults ==
    /\ now = 0
    /\ dir = <<>>
    /\ MAX_BACKUPS = DEFAULT_MAX_BACKUPS
    /\ RETENTION_DAYS = DEFAULT_RETENTION_DAYS

Init ==
    /\ Constructed
    /\ Defaults
    /\ budget = MaxEvents

\* monitor.start() up to `await this.checkSystem()`
Start ==
    /\ mainpc = "new"
    /\ mainpc' = "await_initial"
    /\ started' = 1
    /\ BeginTick(1, now)
    /\ UNCHANGED <<checkInterval, lastKnownState, system_status, now, events, rows>>
    /\ UNCHANGED <<dir, scriptVars>>
    /\ UNCHANGED observed

\* start() after the initial check: setInterval(...)
StartResume ==
    /\ mainpc = "await_initial"
    /\ ticks[1].pc = "done"
    /\ mainpc' = "running"
    /\ checkInterval' = "armed"
    /\ UNCHANGED <<lastKnownState, ticks, started, system_status, now, events, rows>>
    /\ UNCHANGED <<dir, scriptVars>>
    /\ UNCHANGED observed

\* the interval elapses and the callback calls checkSystem, whether or not an
\* earlier execution is still suspended
TimerFire ==
    /\ checkInterval = "armed"
    /\ started < MaxTicks
    /\ started' = started + 1
    /\ now' = now + CHECK_INTERVAL_MS
    /\ BeginTick(started + 1, now + CHECK_INTERVAL_MS)
    /\ IF \E i \in TickIds : InFlight(i)
       THEN events < budget /\ events' = events + 1
       ELSE events' = events
    /\ UNCHANGED <<mainpc, checkInterval, lastKnownState, system_status, rows>>
    /\ UNCHANGED <<dir, scriptVars>>
    /\ UNCHANGED observed

----------------------------------------------------------------------------
(* checkSystem *)

\* lines 73-77: rpc('version') returns
VersionReturn(i) ==
    /\ ticks[i].pc = "version"
    /\ \E ok \in Outcomes :
        /\ Spend(ok)
        /\ ticks' = [ticks EXCEPT ![i] =
                IF ok THEN [@ EXCEPT !.idx = 1, !.pc = "count"]
                ELSE Catch(@, Err("connectivity", ""))]
    /\ UNCHANGED <<mainpc, checkInterval, lastKnownState, started, system_status, now, rows>>
    /\ UNCHANGED <<dir, scriptVars>>
    /\ UNCHANGED observed

\* lines 78-104: the count of one table returns
CountReturn(i) ==
    /\ ticks[i].pc = "count"
    /\ \E r \in CountResults(Table(i)) :
        /\ events' = IF r.error THEN events + 1 ELSE events
        /\ LET tick == ticks[i]
               table == Table(i)
               found == CompareWithBaseline(lastKnownState, table, r.count)
               counted == [tick EXCEPT !.state.tables = SetTable(@, table, r.count)]
           IN ticks' = [ticks EXCEPT ![i] =
                IF r.error
                THEN CountFailed(tick, table)
                ELSE IF found # <<>>
                THEN [counted EXCEPT !.state.warnings = @ \o found,
                                     !.state.status = "warning",
                                     !.nbackups = @ + 1,
                                     !.pc = "loss_backup"]
                ELSE AfterTable(counted)]
        /\ observed' = IF r.error THEN observed
                       ELSE [observed EXCEPT !.warned[Table(i)] =
                                IF CompareWithBaseline(lastKnownState, Table(i), r.count) # <<>>
                                THEN At(r.count) ELSE NULL]
    /\ UNCHANGED <<mainpc, checkInterval, lastKnownState, started, system_status, now, rows>>
    /\ UNCHANGED <<dir, scriptVars>>

\* handleDataLoss, lines 156-166: backupDatabase returns; on success the
\* incident insert is awaited, on failure createBackup throws and
\* handleDataLoss only logs it
LossBackupReturn(i) ==
    /\ ticks[i].pc = "loss_backup"
    /\ \E r \in BackupRuns :
        /\ r.success \in Outcomes
        /\ Spend(r.success)
        /\ system_status' = r.log
        /\ dir' = r.dir
        /\ ticks' = [ticks EXCEPT ![i] =
                IF r.success THEN [@ EXCEPT !.pc = "loss_insert"] ELSE AfterTable(@)]
    /\ UNCHANGED <<mainpc, checkInterval, lastKnownState, started, now, rows>>
    /\ UNCHANGED scriptVars
    /\ UNCHANGED observed

\* handleDataLoss, lines 159-172: the incident insert returns (its error is
\* not inspected); the for loop goes on
LossInsertReturn(i) ==
    /\ ticks[i].pc = "loss_insert"
    /\ \E ok \in Outcomes :
        /\ Spend(ok)
        /\ system_status' = IF ok THEN Insert(system_status, IncidentRow(ticks[i].state), now)
                            ELSE system_status
        /\ ticks' = [ticks EXCEPT ![i] = AfterTable(@)]
    /\ UNCHANGED <<mainpc, checkInterval, lastKnownState, started, now, rows>>
    /\ UNCHANGED <<dir, scriptVars>>
    /\ UNCHANGED observed

\* lines 107-133: the last-backup query returns
LastBackupReturn(i) ==
    /\ ticks[i].pc = "last_backup"
    /\ LET found == BackupAgeWarning(LastBackupQuery(system_status), now)
           warned == [ticks[i] EXCEPT !.state.warnings = @ \o found]
       IN ticks' = [ticks EXCEPT ![i] =
            IF found # <<>>
            THEN [warned EXCEPT !.nbackups = @ + 1, !.pc = "age_backup"]
            ELSE [warned EXCEPT !.state.status = StatusOf(warned.state), !.pc = "save"]]
    /\ UNCHANGED <<mainpc, checkInterval, lastKnownState, started, system_status,
                   now, events, rows>>
    /\ UNCHANGED <<dir, scriptVars>>
    /\ UNCHANGED observed

\* lines 121/125, 128-136: backupDatabase returns to createBackup; on failure
\* createBackup throws into the catch block
AgeBackupReturn(i) ==
    /\ ticks[i].pc = "age_backup"
    /\ \E r \in BackupRuns :
        /\ r.success \in Outcomes
        /\ Spend(r.success)
        /\ system_status' = r.log
        /\ dir' = r.dir
        /\ ticks' = [ticks EXCEPT ![i] =
                IF r.success
                THEN [ticks[i] EXCEPT !.state.status = StatusOf(ticks[i].state),
                                      !.pc = "save"]
                ELSE Catch(ticks[i], Err("backup", ""))]
    /\ UNCHANGED <<mainpc, checkInterval, lastKnownState, started, now, rows>>
    /\ UNCHANGED scriptVars
    /\ UNCHANGED observed

\* line 137: this.lastKnownState = state, after updateSystemStatus has
\* returned with the row written (ok) or not
BaselineAfterSave_OnlyIfSaved(baseline, state, ok) == IF ok THEN state ELSE baseline
BaselineAfterSave(baseline, state, ok) == state

\* lines 136-143: updateSystemStatus returns in the try block (an insert
\* error is not inspected, a throw is caught in updateSystemStatus), then
\* this.lastKnownState = state
SaveReturn(i) ==
    /\ ticks[i].pc = "save"
    /\ \E ok \in Outcomes :
        /\ Spend(ok)
        /\ system_status' = IF ok THEN Insert(system_status, StatusRow(ticks[i].state), now)
                            ELSE system_status
        /\ lastKnownState' = BaselineAfterSave(lastKnownState, ticks[i].state, ok)
    /\ ticks' = [ticks EXCEPT ![i] = DoneTick]
    /\ UNCHANGED <<mainpc, checkInterval, started, now, rows>>
    /\ UNCHANGED <<dir, scriptVars>>
    /\ UNCHANGED observed

\* lines 145-150: the catch block ends after updateSystemStatus without
\* assigning this.lastKnownState
BaselineAfterCatch_Replaced(baseline, state) == state
BaselineAfterCatch(baseline, state) == baseline

\* lines 149-150: updateSystemStatus returns in the catch block
CatchSaveReturn(i) ==
    /\ ticks[i].pc = "catch_save"
    /\ \E ok \in Outcomes :
        /\ Spend(ok)
        /\ system_status' = IF ok THEN Insert(system_status, StatusRow(ticks[i].state), now)
                            ELSE system_status
    /\ lastKnownState' = BaselineAfterCatch(lastKnownState, ticks[i].state)
    /\ ticks' = [ticks EXCEPT ![i] = DoneTick]
    /\ UNCHANGED <<mainpc, checkInterval, started, now, rows>>
    /\ UNCHANGED <<dir, scriptVars>>
    /\ UNCHANGED observed

checkSystem(i) ==
    \/ VersionReturn(i)
    \/ CountReturn(i)
    \/ LossBackupReturn(i)
    \/ LossInsertReturn(i)
    \/ LastBackupReturn(i)
    \/ AgeBackupReturn(i)
    \/ SaveReturn(i)
    \/ CatchSaveReturn(i)

\* rows are inserted into or deleted from a critical table by the application
RowsChange ==
    /\ events < budget
    /\ events' = events + 1
    /\ \E t \in DOMAIN rows : \E c \in Counts \ {rows[t]} :
        rows' = [rows EXCEPT ![t] = c]
    /\ UNCHANGED <<mainpc, checkInterval, lastKnownState, ticks, started,
                   system_status, now>>
    /\ UNCHANGED <<dir, scriptVars>>
    /\ UNCHANGED observed

Next ==
    \/ Start
    \/ StartResume
    \/ TimerFire
    \/ RowsChange
    \/ \E i \in TickIds : checkSystem(i)

Spec == Init /\ [][Next]_vars

----------------------------------------------------------------------------
(* backup-database.ts run directly (lines 120-136) *)

\* the directories explored: up to MaxFiles artifacts with content, each
\* between 0 and MaxAgeDays days old, in any readdir order
InitialDirs(clock) ==
    UNION {{[k \in 1..n |-> Artifact(k, clock - ages[k] * DAY_MS, 1)] :
                ages \in [1..n -> 0..MaxAgeDays]} : n \in 0..MaxFiles}

InitBackup ==
    /\ Constructed
    /\ budget = OpsEvents
    /\ now = MaxAgeDays * DAY_MS
    /\ dir \in InitialDirs(now)
    /\ MAX_BACKUPS \in 0..MaxFiles
    /\ RETENTION_DAYS \in 0..MaxAgeDays

\* lines 61-82: the process starts and awaits the pg_dump | gzip pipeline
BackupStart ==
    /\ backup.pc \in {"new", "exited"}
    /\ events < budget
    /\ events' = events + 1
    /\ backup' = [IdleBackup EXCEPT !.pc = "dump"]
    /\ UNCHANGED <<mainpc, checkInterval, lastKnownState, ticks, started,
                   system_status, rows, now, dir, budget, MAX_BACKUPS, RETENTION_DAYS, cli>>
    /\ UNCHANGED observed
    /\ UNCHANGED toolVars

\* lines 82-104: the pipeline returns; the file is verified, cleanOldBackups
\* runs and the psql INSERT is awaited; a throw is caught at line 111 and the
\* process exits with code 1
DumpReturn ==
    /\ backup.pc = "dump"
    /\ \E dump \in DumpResults :
        LET name == NewName(dir)
            written == AfterDump(dir, name, now, dump)
            swept == cleanOldBackups(written, now, MAX_BACKUPS, RETENTION_DAYS)
        IN IF dump = "none" \/ ~Verified(written, name)
           THEN /\ dir' = written
                /\ backup' = [backup EXCEPT !.pc = "exited", !.path = name,
                                            !.result = "failure"]
           ELSE /\ dir' = swept.dir
                /\ backup' = [backup EXCEPT
                        !.path = name,
                        !.files = SortByTimeDesc(written),
                        !.swept = TRUE,
                        !.threw = swept.threw,
                        !.pc = IF swept.threw THEN "exited" ELSE "psql",
                        !.result = IF swept.threw THEN "failure" ELSE "none"]
    /\ UNCHANGED <<mainpc, checkInterval, lastKnownState, ticks, started,
                   system_status, rows, now, events, budget, MAX_BACKUPS,
                   RETENTION_DAYS, cli>>
    /\ UNCHANGED observed
    /\ UNCHANGED toolVars

\* lines 104-117, 122-131: the psql INSERT returns and the process exits
PsqlReturn ==
    /\ backup.pc = "psql"
    /\ \E ok \in BOOLEAN :
        /\ system_status' = IF ok THEN Insert(system_status, BackupRow(now), now)
                            ELSE system_status
        /\ backup' = [backup EXCEPT !.pc = "exited",
                                    !.result = IF ok THEN "success" ELSE "failure"]
    /\ UNCHANGED <<mainpc, checkInterval, lastKnownState, ticks, started,
                   rows, now, events, dir, budget, MAX_BACKUPS, RETENTION_DAYS, cli>>
    /\ UNCHANGED observed
    /\ UNCHANGED toolVars

NextBackup ==
    \/ BackupStart
    \/ DumpReturn
    \/ PsqlReturn

SpecBackup == InitBackup /\ [][NextBackup]_vars

----------------------------------------------------------------------------
(* manage-db-state.ts <command> *)

CliUnchanged ==
    UNCHANGED <<mainpc, checkInterval, lastKnownState, ticks, started, rows, now,
                events, dir, budget, MAX_BACKUPS, RETENTION_DAYS, backup, observed,
                toolVars>>

\* main returns: nothing is pending and the process ends with code 0
CliDone(output) == [cli EXCEPT !.pc = "exited", !.output = output, !.exit = "0"]

\* a call threw: the catch block of main awaits logSystemEvent('error', ...)
CliCaught == [cli EXCEPT !.pc = "log_error", !.failed = TRUE]

\* lines 128-136: logSystemEvent('error', ...) returned and process.exit(1) is
\* called, or it threw: main's promise rejects, nothing handles the rejection
\* (line 140) and Node ends the process with code 1
ExitAfterErrorLog_ZeroOnRejection(logged) == IF logged THEN "1" ELSE "0"
ExitAfterErrorLog(logged) == "1"

\* main() is called with process.argv[2] and awaits its first call; the default
\* case prints the usage text and returns
CliStart ==
    /\ cli.pc \in {"none", "exited"}
    /\ events < budget
    /\ events' = events + 1
    /\ \E c \in Arguments :
        cli' = [IdleCli EXCEPT !.command = c,
                               !.pc = IF c = "help" THEN "exited"
                                      ELSE IF c = "health" THEN "version" ELSE "call",
                               !.exit = IF c = "help" THEN "0" ELSE "none"]
    /\ UNCHANGED <<mainpc, checkInterval, lastKnownState, ticks, started,
                   system_status, rows, now, dir, budget, MAX_BACKUPS,
                   RETENTION_DAYS, backup>>
    /\ UNCHANGED observed
    /\ UNCHANGED toolVars

\* lines 92-95: getSystemStatus returns the row, or throws on the query's
\* error or on a failed request
CliStatusReturn ==
    /\ cli.pc = "call"
    /\ cli.command = "status"
    /\ \E r \in GetSystemStatus(system_status) \cup {[error |-> TRUE, data |-> <<>>]} :
        cli' = IF r.error THEN CliCaught ELSE CliDone(r.data)
    /\ UNCHANGED system_status
    /\ CliUnchanged

\* lines 102-116: logSystemEvent('reset' | 'backup', ...) returns or throws
CliLogReturn ==
    /\ cli.pc = "call"
    /\ cli.command \in {"reset", "backup"}
    /\ \E ok \in BOOLEAN :
        /\ system_status' =
              IF ~ok THEN system_status
              ELSE IF cli.command = "reset"
              THEN Insert(system_status,
                          LogRow("reset", "Manual database reset triggered", now), now)
              ELSE Insert(system_status,
                          LogRow("backup", "Manual backup triggered", now), now)
        /\ cli' = IF ok THEN CliDone(<<>>) ELSE CliCaught
    /\ CliUnchanged

\* lines 60-61 of checkDatabaseHealth: rpc('version') returns
CliVersionReturn ==
    /\ cli.pc = "version"
    /\ \E ok \in BOOLEAN :
        cli' = IF ok THEN [cli EXCEPT !.pc = "count", !.idx = 1] ELSE CliCaught
    /\ UNCHANGED system_status
    /\ CliUnchanged

\* lines 67-80: the count of tables[idx] returns; an error is thrown, a count
\* is stored and the loop goes on or the result is returned and printed
CliCountReturn ==
    /\ cli.pc = "count"
    /\ \E ok \in BOOLEAN :
        LET table == CRITICAL_TABLES[cli.idx]
            stats == SetTable(cli.tableStats, table, rows[table])
        IN cli' = IF ~ok THEN CliCaught
                  ELSE IF cli.idx < Len(CRITICAL_TABLES)
                  THEN [cli EXCEPT !.idx = cli.idx + 1, !.tableStats = stats]
                  ELSE [CliDone(<<[connected |-> TRUE, tableStats |-> stats]>>)
                            EXCEPT !.tableStats = stats]
    /\ UNCHANGED system_status
    /\ CliUnchanged

\* lines 127-137: logSystemEvent('error', ...) returns or throws
CliErrorLogReturn ==
    /\ cli.pc = "log_error"
    /\ \E ok \in BOOLEAN :
        /\ system_status' =
              IF ok THEN Insert(system_status, LogRow("error", "command", now), now)
              ELSE system_status
        /\ cli' = [cli EXCEPT !.pc = "exited", !.exit = ExitAfterErrorLog(ok)]
    /\ CliUnchanged

NextCli ==
    \/ CliStart
    \/ CliStatusReturn
    \/ CliLogReturn
    \/ CliVersionReturn
    \/ CliCountReturn
    \/ CliErrorLogReturn

\* histories of at most n rows that log_system_event can have written by the
\* time `clock`: created_at (DEFAULT now()) does not decrease along a history;
\* the empty history is the table created by the migration's line 5 when its
\* last statement, the call that logs 'initialized', has failed
RECURSIVE Histories(_, _)
Histories(n, clock) ==
    IF n = 0 THEN {<<>>}
    ELSE LET shorter == Histories(n - 1, clock)
             Later(h) == {t \in {0, clock} : h = <<>> \/ h[Len(h)].created_at[1] <= t}
         IN shorter \cup
            UNION {{Insert(h, LogRow(st, "event", t), t) :
                        st \in EventStatuses, t \in Later(h)} : h \in shorter}

\* the command-line tool run against a table with some history, the monitor
\* not running; the critical tables may change meanwhile
InitCli ==
    /\ Constructed!1
    /\ Constructed!2
    /\ Constructed!3
    /\ Constructed!4
    /\ Constructed!5
    /\ system_status \in Histories(MaxHistory, CHECK_INTERVAL_MS)
    /\ rows = [t \in {CRITICAL_TABLES[k] : k \in 1..Len(CRITICAL_TABLES)} |-> MaxOf(Counts)]
    /\ events = 0
    /\ backup = IdleBackup
    /\ cli = IdleCli
    /\ observed = NothingObserved
    /\ check = IdleCheck
    /\ migration = IdleMigration
    /\ now = CHECK_INTERVAL_MS
    /\ dir = <<>>
    /\ MAX_BACKUPS = DEFAULT_MAX_BACKUPS
    /\ RETENTION_DAYS = DEFAULT_RETENTION_DAYS
    /\ budget = MaxEvents

NextCliRun ==
    \/ NextCli
    \/ RowsChange

SpecCli == InitCli /\ [][NextCliRun]_vars

----------------------------------------------------------------------------
(* checkDatabase run directly *)

\* line 111: const tables = [...], of which a prefix is probed
AllCheckTables == <<"auth.users", "user_profiles", "schools", "school_users">>
CheckTables ==
    {AllCheckTables[k] : k \in 1..MinOf(NumTables, Len(AllCheckTables))}

\* { count, error } of one count call: the error (count is null), or the
\* table's row count; 'auth.users' is no critical table of the monitor, its
\* count is any
CheckCountResults(table) ==
    {[returned |-> TRUE, count |-> NULL, error |-> TRUE]}
        \cup {[returned |-> TRUE, count |-> At(c), error |-> FALSE] :
                 c \in IF table \in DOMAIN rows THEN {rows[table]} ELSE Counts}

\* line 126: tableChecks.filter(check => check.count === 0)
emptyTables_Falsy(tableChecks) ==
    {t \in DOMAIN tableChecks : tableChecks[t].count \in {NULL, At(0)}}
emptyTables(tableChecks) ==
    {t \in DOMAIN tableChecks : tableChecks[t].count = At(0)}

CheckUnchanged ==
    UNCHANGED <<mainpc, checkInterval, lastKnownState, ticks, started, rows, now,
                events, budget, MAX_BACKUPS, RETENTION_DAYS, backup, cli, migration,
                observed>>

\* lines 95-103: checkDatabase is called and awaits its health query
CheckStart ==
    /\ check.pc \in {"new", "exited"}
    /\ events < budget
    /\ events' = events + 1
    /\ check' = [IdleCheck EXCEPT !.pc = "health"]
    /\ UNCHANGED <<mainpc, checkInterval, lastKnownState, ticks, started, rows, now,
                   budget, MAX_BACKUPS, RETENTION_DAYS, backup, cli, migration,
                   observed, system_status, dir>>

\* lines 105-124: the health query returns: on its error process.exit(1);
\* otherwise tables.map(...) calls every count before Promise.all is awaited
CheckHealthReturn ==
    /\ check.pc = "health"
    /\ \E ok \in BOOLEAN :
        check' = IF ok
                 THEN [check EXCEPT !.pc = "counts",
                                    !.tableChecks = [t \in CheckTables |-> PendingCheck]]
                 ELSE [check EXCEPT !.pc = "exited", !.exit = "1"]
    /\ UNCHANGED <<system_status, dir>>
    /\ CheckUnchanged

\* lines 114-122: one of the pending count calls returns, in any order
CheckCountReturn ==
    /\ check.pc = "counts"
    /\ \E t \in CheckTables :
        /\ ~check.tableChecks[t].returned
        /\ \E r \in CheckCountResults(t) :
            check' = [check EXCEPT !.tableChecks[t] = r]
    /\ UNCHANGED <<system_status, dir>>
    /\ CheckUnchanged

\* lines 112, 126-141: every count has returned and Promise.all resolves;
\* with an empty table backupDatabase is awaited, otherwise the reset query
CheckJoin ==
    /\ check.pc = "counts"
    /\ \A t \in CheckTables : check.tableChecks[t].returned
    /\ check' = IF emptyTables(check.tableChecks) # {}
                THEN [check EXCEPT !.pc = "backup", !.backups = @ + 1]
                ELSE [check EXCEPT !.pc = "reset_check"]
    /\ UNCHANGED <<system_status, dir>>
    /\ CheckUnchanged

\* lines 134-141: backupDatabase returns (its result is not looked at) and
\* the reset query is awaited
CheckBackupReturn ==
    /\ check.pc = "backup"
    /\ \E r \in BackupRuns :
        /\ system_status' = r.log
        /\ dir' = r.dir
    /\ check' = [check EXCEPT !.pc = "reset_check"]
    /\ CheckUnchanged

\* lines 141-162, 171-176: the reset query returns (an error leaves
\* resetCheck null), checkDatabase returns true and the process exits
CheckResetReturn ==
    /\ check.pc = "reset_check"
    /\ check' = [check EXCEPT !.pc = "exited", !.exit = "0"]
    /\ UNCHANGED <<system_status, dir>>
    /\ CheckUnchanged

NextCheck ==
    \/ CheckStart
    \/ CheckHealthReturn
    \/ CheckCountReturn
    \/ CheckJoin
    \/ CheckBackupReturn
    \/ CheckResetReturn

\* checkDatabase run while the critical tables change, the monitor not started
InitCheck ==
    /\ Constructed
    /\ Defaults
    /\ budget = MaxEvents

NextCheckRun ==
    \/ NextCheck
    \/ RowsChange

SpecCheck == InitCheck /\ [][NextCheckRun]_vars

----------------------------------------------------------------------------
(* run-migration.ts <file> *)

\* the characters a migration file is made of here: a letter, the statement
\* separator, a blank, and "$" for the dollar-quote delimiter $$ that encloses
\* the function bodies of the migrations
SqlChars == {"a", ";", " ", "$"}

\* sql.split(';'): the pieces between the separators, `piece` being the one
\* under way
RECURSIVE SplitFrom(_, _)
SplitFrom(rest, piece) ==
    IF rest = <<>> THEN <<piece>>
    ELSE IF Head(rest) = ";" THEN <<piece>> \o SplitFrom(Tail(rest), <<>>)
    ELSE SplitFrom(Tail(rest), Append(piece, Head(rest)))

Split(sql) == SplitFrom(sql, <<>>)

\* String.prototype.trim
RECURSIVE Trim(_)
Trim(str) ==
    IF str = <<>> THEN <<>>
    ELSE IF Head(str) = " " THEN Trim(Tail(str))
    ELSE IF str[Len(str)] = " " THEN Trim(SubSeq(str, 1, Len(str) - 1))
    ELSE str

NonEmpty(str) == Len(str) > 0

\* lines 30-33: sql.split(';').map(s => s.trim()).filter(s => s.length > 0)
Statements(sql) ==
    LET pieces == Split(sql)
    IN SelectSeq([k \in 1..Len(pieces) |-> Trim(pieces[k])], NonEmpty)

\* lines 39-56: the loop after statement i has returned: the next statement is
\* sent whether or not this one returned an error; after the last one
\* runMigration returns and process.exit(0) is called (line 78)
AfterStatement(run, ok) ==
    LET noted == [run EXCEPT !.failed = IF ok THEN @ ELSE @ \cup {run.i}]
    IN IF run.i < Len(run.statements)
       THEN [noted EXCEPT !.i = run.i + 1,
                          !.executed = Append(run.executed, run.statements[run.i + 1])]
       ELSE [noted EXCEPT !.pc = "exited", !.exit = "0"]

MigrationUnchanged ==
    UNCHANGED <<mainpc, checkInterval, lastKnownState, ticks, started, system_status,
                rows, now, dir, budget, MAX_BACKUPS, RETENTION_DAYS, backup, cli,
                check, observed>>

\* lines 19-46: runMigration reads and splits the file and sends the first
\* statement, or returns at once when there is none; a file that cannot be
\* read throws into the catch block: process.exit(1)
MigrationStart ==
    /\ migration.pc = "new"
    /\ events < budget
    /\ events' = events + 1
    /\ \E readable \in BOOLEAN :
        LET statements == Statements(migration.sql)
        IN migration' =
             IF ~readable THEN [migration EXCEPT !.pc = "exited", !.exit = "1"]
             ELSE IF statements = <<>>
             THEN [migration EXCEPT !.pc = "exited", !.exit = "0"]
             ELSE [migration EXCEPT !.pc = "execute", !.statements = statements,
                                    !.i = 1, !.executed = <<statements[1]>>]
    /\ MigrationUnchanged

\* lines 44-56: rpc('execute_sql') returns for statement i
MigrationExecuteReturn ==
    /\ migration.pc = "execute"
    /\ \E ok \in BOOLEAN : migration' = AfterStatement(migration, ok)
    /\ UNCHANGED events
    /\ MigrationUnchanged

NextMigration ==
    \/ MigrationStart
    \/ MigrationExecuteReturn

RECURSIVE Texts(_)
Texts(n) ==
    IF n = 0 THEN {<<>>}
    ELSE LET shorter == Texts(n - 1)
         IN shorter \cup {Append(t, c) : t \in shorter, c \in SqlChars}

\* run-migration.ts is given a file of at most MaxSqlLen characters
InitMigration ==
    /\ Constructed!1
    /\ Constructed!2
    /\ Constructed!3
    /\ Constructed!4
    /\ Constructed!5
    /\ Constructed!6
    /\ Constructed!7
    /\ Constructed!8
    /\ Constructed!9
    /\ Constructed!10
    /\ Constructed!11
    /\ Constructed!12
    /\ migration \in {[IdleMigration EXCEPT !.sql = t] : t \in Texts(MaxSqlLen)}
    /\ Defaults
    /\ budget = OpsEvents

SpecMigration == InitMigration /\ [][NextMigration]_vars

----------------------------------------------------------------------------
(* The monitor and the scripts side by side *)

InitOps ==
    /\ Constructed
    /\ Defaults
    /\ budget = OpsEvents

\* SIGINT arrives (lines 207-211): monitor.stop() clears the interval, then
\* process.exit(0) ends the process with every suspended execution of
\* checkSystem where it is
Sigint ==
    /\ mainpc \in {"await_initial", "running"}
    /\ events < budget
    /\ events' = events + 1
    /\ checkInterval' = "null"
    /\ mainpc' = "exited"
    /\ ticks' = [i \in TickIds |->
                    IF InFlight(i) THEN [ticks[i] EXCEPT !.pc = "killed"] ELSE ticks[i]]
    /\ UNCHANGED <<lastKnownState, started, system_status, rows, now>>
    /\ UNCHANGED <<dir, scriptVars>>
    /\ UNCHANGED observed

\* stop() is called by code that holds the monitor (the class is exported),
\* at any time after start() was called: lines 54-60
Stop ==
    /\ mainpc \in {"await_initial", "running"}
    /\ events < budget
    /\ events' = events + 1
    /\ checkInterval' = "null"
    /\ observed' = [observed EXCEPT !.stopCalled = TRUE]
    /\ UNCHANGED <<mainpc, lastKnownState, ticks, started, system_status, rows, now>>
    /\ UNCHANGED <<dir, scriptVars>>

NextOps ==
    \/ Next
    \/ NextBackup
    \/ NextCli
    \/ Sigint
    \/ Stop

SpecOps == InitOps /\ [][NextOps]_vars

\* the monitor process alone: every awaited call settles, so a suspended
\* execution of checkSystem and the suspended start() resume, and an armed
\* interval fires
NextMonitor ==
    \/ Next
    \/ Sigint

SpecFair ==
    /\ InitOps
    /\ [][NextMonitor]_vars
    /\ WF_vars(Start)
    /\ WF_vars(StartResume)
    /\ WF_vars(TimerFire)
    /\ \A i \in TickIds : WF_vars(checkSystem(i))

----------------------------------------------------------------------------
(* Vocabulary of the properties *)

HasDataLoss(state) ==
    \E k \in 1..Len(state.warnings) : state.warnings[k].kind = "data_loss"

DataLossWarningsFor(state, table) ==
    {k \in 1..Len(state.warnings) :
        state.warnings[k].kind = "data_loss" /\ state.warnings[k].table = table}

ConnectivityFailed(state) ==
    \E k \in 1..Len(state.errors) : state.errors[k].kind = "connectivity"

\* the execution has finished its checks and awaits the insert of its StatusRecord
AboutToRecord(i) == ticks[i].pc \in {"save", "catch_save"}

\* this step is the return of execution i
Finishes(i) == InFlight(i) /\ ticks'[i].pc = "done"

\* this step is the return of a table count to execution i
CountStep(i) == ticks[i].pc = "count" /\ ticks'[i] # ticks[i]

NewWarnings(i) ==
    SubSeq(ticks'[i].state.warnings, Len(ticks[i].state.warnings) + 1,
           Len(ticks'[i].state.warnings))

TableNames == {CRITICAL_TABLES[k] : k \in 1..Len(CRITICAL_TABLES)}

ExecutionsDone == Cardinality({i \in TickIds : ticks[i].pc = "done"})

----------------------------------------------------------------------------
(* Properties *)

\* C1: whenever no execution of checkSystem is in progress, the rows added to
\* system_status since the monitor was constructed (by the monitor and by the
\* backups it ran) number exactly the executions completed: one per tick.
C1_OneRecordPerTick ==
    (\A i \in TickIds : ~InFlight(i)) => Len(system_status) = 1 + ExecutionsDone

\* C2: the step that ends a tick leaves lastKnownState equal to that tick's
\* snapshot, also when the tick ended in the catch block.
C2_BaselineReplacedEveryTick ==
    [][\A i \in TickIds : Finishes(i) => lastKnownState' = ticks[i].state]_vars

\* C3: at most one execution of checkSystem is in progress in every reachable state.
C3_TicksSerialized ==
    Cardinality({i \in TickIds : InFlight(i)}) <= 1

\* C4: when a table is counted (current count cur) and the baseline holds a
\* count prev for it, the data-loss warning citing the table, prev and cur is
\* pushed exactly when 10*cur < 9*prev, and nothing else is pushed; a tick holds
\* at most one data-loss warning per table; and a tick that is about to record
\* with a data-loss warning has status warning or error.
C4_DataLossStep ==
    \A i \in TickIds :
        LET table == Table(i) IN
        (/\ CountStep(i)
         /\ table \in DOMAIN ticks'[i].state.tables
         /\ lastKnownState # NULL_STATE
         /\ table \in DOMAIN lastKnownState.tables)
        => LET prev == lastKnownState.tables[table]
               cur == ticks'[i].state.tables[table]
           IN /\ NewWarnings(i) = IF 10 * cur < 9 * prev
                                  THEN <<DataLossWarning(table, prev, cur)>> ELSE <<>>
              /\ 10 * cur < 9 * prev => ticks'[i].state.status = "warning"
C4_DataLossState ==
    \A i \in TickIds :
        /\ \A t \in TableNames : Cardinality(DataLossWarningsFor(ticks[i].state, t)) <= 1
        /\ AboutToRecord(i) /\ HasDataLoss(ticks[i].state)
              => ticks[i].state.status \in {"warning", "error"}
C4_DataLossWarnedExactlyWhenOverTenPercent ==
    [][C4_DataLossStep]_vars /\ []C4_DataLossState

\* a tick about to record status warning with no error and exactly the warning
\* for user_profiles dropping from 100 to 85
C4_Witness ==
    \E i \in TickIds :
        /\ ticks[i].pc = "save"
        /\ ticks[i].state.status = "warning"
        /\ ticks[i].state.errors = <<>>
        /\ ticks[i].state.warnings[1] = DataLossWarning("user_profiles", 100, 85)
        /\ Cardinality({k \in 1..Len(ticks[i].state.warnings) :
                            ticks[i].state.warnings[k].kind = "data_loss"}) = 1

\* C5: a tick that is about to record with a non-empty errors list has snapshot
\* status error, whatever its warnings.
C5_ErrorsForceErrorStatus ==
    \A i \in TickIds :
        AboutToRecord(i) /\ ticks[i].state.errors # <<>>
            => ticks[i].state.status = "error"

\* a tick about to record in the try block with a count error and a data-loss warning
C5_Witness ==
    \E i \in TickIds :
        /\ ticks[i].pc = "save"
        /\ ticks[i].state.errors # <<>>
        /\ HasDataLoss(ticks[i].state)
        /\ ticks[i].state.status = "error"

\* C6: a tick that is about to record while no baseline is held has status
\* healthy unless its errors list is non-empty.
C6_FirstRunHealthyUnlessErrors ==
    \A i \in TickIds :
        AboutToRecord(i) /\ lastKnownState = NULL_STATE
            => (ticks[i].state.status = "healthy" <=> ticks[i].state.errors = <<>>)

\* C7: a count step pushes a data-loss warning only if a baseline is held and
\* the baseline holds a count for that table; while no baseline is held no
\* tick holds a data-loss warning.
C7_CompareStep ==
    \A i \in TickIds :
        CountStep(i) /\ NewWarnings(i) # <<>>
            => lastKnownState # NULL_STATE /\ Table(i) \in DOMAIN lastKnownState.tables
C7_NoWarningWithoutPreviousCount ==
    /\ [][C7_CompareStep]_vars
    /\ [](lastKnownState = NULL_STATE
             => \A i \in TickIds : ~HasDataLoss(ticks[i].state))

\* the second tick has counted, without warning, a lower count of a table that
\* the baseline (which counted another table at 100) does not hold
C7_Witness ==
    /\ started = 2
    /\ lastKnownState # NULL_STATE
    /\ \E t \in TableNames :
        /\ t \notin DOMAIN lastKnownState.tables
        /\ \E u \in DOMAIN lastKnownState.tables : lastKnownState.tables[u] = 100
        /\ t \in DOMAIN ticks[2].state.tables
        /\ ticks[2].state.tables[t] = 85
        /\ ~HasDataLoss(ticks[2].state)

C9_BackupIffTriggered ==
    [][\A i \in TickIds :
        ticks[i].pc = "last_backup" /\ ticks'[i] # ticks[i]
            => (ticks'[i].nbackups > 0
                <=> \/ HasDataLoss(ticks[i].state)
                    \/ NoBackupTime(system_status)
                    \/ now - MaxOf(BackupTimes(system_status)) > DAY_MS)]_vars

\* C10 as stated: a tick that began while the table held no backup timestamp
\* has invoked backupDatabase by the time it is about to record.
C10_BackupWhenNoneRecorded ==
    \A i \in TickIds :
        AboutToRecord(i) /\ ticks[i].noBackupAtStart => ticks[i].nbackups > 0

\* C10 amended: a tick that began while the table held no backup timestamp and
\* whose connectivity check succeeded has invoked backupDatabase by the time it
\* is about to record, whatever its status; a tick whose connectivity check
\* failed has invoked none.
C10_BackupWhenNoneRecordedAndConnected ==
    \A i \in TickIds :
        AboutToRecord(i) =>
            /\ ticks[i].noBackupAtStart /\ ~ConnectivityFailed(ticks[i].state)
                  => ticks[i].nbackups > 0
            /\ ConnectivityFailed(ticks[i].state) => ticks[i].nbackups = 0

\* a tick that began without a backup timestamp, has status error from a failed
\* count, and has invoked the backup
C10_Witness ==
    \E i \in TickIds :
        /\ ticks[i].pc = "save"
        /\ ticks[i].noBackupAtStart
        /\ ticks[i].state.status = "error"
        /\ ~ConnectivityFailed(ticks[i].state)
        /\ ticks[i].nbackups = 1

\* this step is the return of a failed backupDatabase to execution i: after the
\* data-loss backup the incident insert is skipped, after the age-check backup
\* the catch block is entered
BackupFailedStep(i) ==
    \/ ticks[i].pc = "loss_backup" /\ ticks'[i] # ticks[i] /\ ticks'[i].pc # "loss_insert"
    \/ ticks[i].pc = "age_backup" /\ ticks'[i].pc = "catch_save"

\* C11: the step at which a backup invoked by a tick fails, whether triggered by
\* a data-loss warning or by the missing/stale-backup condition, appends the
\* backup failure to the errors of the tick's snapshot.
C11_BackupFailureAppended ==
    [][\A i \in TickIds :
        BackupFailedStep(i)
            => ticks'[i].state.errors = Push(ticks[i].state.errors, Err("backup", ""))]_vars

\* C12: a tick whose connectivity check failed has counted no table, holds no
\* warning, has invoked no backup, holds the connectivity error as its only
\* error with status error, and is awaiting the insert of its StatusRecord; its
\* next step returns, and the only row that step can add is one row with
\* status 'error' carrying that snapshot.
C12_State ==
    \A i \in TickIds :
        ConnectivityFailed(ticks[i].state)
            => /\ ticks[i].pc = "catch_save"
               /\ ticks[i].state.tables = EmptyTables
               /\ ticks[i].state.warnings = <<>>
               /\ ticks[i].state.errors = <<Err("connectivity", "")>>
               /\ ticks[i].state.status = "error"
               /\ ticks[i].nbackups = 0
C12_Step ==
    \A i \in TickIds :
        /\ ticks[i].pc = "version" /\ ticks'[i] # ticks[i] /\ ticks'[i].pc # "count"
              => ConnectivityFailed(ticks'[i].state) /\ system_status' = system_status
        /\ ConnectivityFailed(ticks[i].state) /\ ticks'[i] # ticks[i]
              => /\ ticks'[i].pc = "done"
                 /\ \/ system_status' = system_status /\ events' = events + 1
                    \/ system_status' =
                          Append(system_status,
                                 [Row("error", "snapshot", "error", NULL)
                                     EXCEPT !.error_count = 1,
                                            !.created_at = At(now)])
C12_ConnectivityFailureRecordsError ==
    [][C12_Step]_vars /\ []C12_State

\* the second tick failed its connectivity check while a table counted at 100
\* by the baseline has dropped to 85, and is about to record
C12_Witness ==
    /\ ticks[2].pc = "catch_save"
    /\ ConnectivityFailed(ticks[2].state)
    /\ \E t \in DOMAIN lastKnownState.tables :
          lastKnownState.tables[t] = 100 /\ rows[t] = 85

\* the count errors a snapshot holds for a table
CountErrorsFor(state, table) ==
    {k \in 1..Len(state.errors) : state.errors[k] = Err("count", table)}

\* the table was probed: it is counted in the snapshot or has exactly one
\* count error, never both
Probed(state, table) ==
    IF table \in DOMAIN state.tables THEN CountErrorsFor(state, table) = {}
    ELSE Cardinality(CountErrorsFor(state, table)) = 1

\* the execution has left the for loop over CRITICAL_TABLES
PastLoop(i) ==
    \/ ticks[i].pc \in {"last_backup", "age_backup", "save"}
    \/ ticks[i].pc = "catch_save" /\ ~ConnectivityFailed(ticks[i].state)

\* C13: the return of a failed count pushes one error naming the table, leaves
\* tableCounts unchanged and goes on with the next table (or with the statement
\* after the loop); once a tick has left the loop every critical table is
\* either counted or has exactly one count error, and a table with a count
\* error is absent from tableCounts.
C13_Step ==
    \A i \in TickIds :
        CountStep(i) /\ Table(i) \notin DOMAIN ticks'[i].state.tables
            => /\ ticks'[i].state.errors = Push(ticks[i].state.errors, Err("count", Table(i)))
               /\ ticks'[i].state.tables = ticks[i].state.tables
               /\ ticks'[i].state.warnings = ticks[i].state.warnings
               /\ IF ticks[i].idx < Len(CRITICAL_TABLES)
                  THEN ticks'[i].pc = "count" /\ ticks'[i].idx = ticks[i].idx + 1
                  ELSE ticks'[i].pc = "last_backup"
C13_State ==
    \A i \in TickIds :
        /\ \A t \in TableNames :
              t \in DOMAIN ticks[i].state.tables => CountErrorsFor(ticks[i].state, t) = {}
        /\ PastLoop(i) => \A t \in TableNames : Probed(ticks[i].state, t)
        /\ ticks[i].pc = "count"
              => \A k \in 1..(ticks[i].idx - 1) : Probed(ticks[i].state, CRITICAL_TABLES[k])
C13_CountFailureDoesNotAbort ==
    [][C13_Step]_vars /\ []C13_State

\* a tick about to record whose count of user_profiles failed and whose count
\* of schools, probed afterwards, is in the snapshot
C13_Witness ==
    \E i \in TickIds :
        /\ ticks[i].pc = "save"
        /\ ticks[i].state.errors = <<Err("count", "user_profiles")>>
        /\ DOMAIN ticks[i].state.tables = {"schools"}

----------------------------------------------------------------------------
(* Properties of the backup script and of the retention sweep *)

\* the artifacts the sweep of this run found, and those of them it left
Found == {backup.files[k] : k \in 1..Len(backup.files)}
Left == {f \in Found : f.name \in Names(dir)}

\* older than RETENTION_DAYS days at the time of the sweep
TooOld(f) == now - f.time > RETENTION_DAYS * DAY_MS

\* at least MAX_BACKUPS other artifacts found by the sweep are newer than f,
\* or as new and no earlier in the sorted list
Rank(f) == CHOOSE k \in 1..Len(backup.files) : backup.files[k] = f
BeyondCount(f) == Rank(f) > MAX_BACKUPS

\* C14: a run whose dump left no artifact or an artifact of size 0 reports
\* failure, leaves no artifact of size 0 in the backup directory and writes no
\* 'backup' row.
C14_EmptyArtifactLeavesNothing ==
    backup.pc = "exited" /\ ~backup.swept
        => /\ backup.result = "failure"
           /\ \A k \in 1..Len(dir) : dir[k].size # 0
           /\ \A k \in 1..Len(system_status) : system_status[k].status # "backup"

\* C15: once cleanOldBackups has run, at most MAX_BACKUPS artifacts are in the
\* directory and none of them is older than RETENTION_DAYS days, for every
\* directory and every setting explored, also when the sweep threw.
C15_SweepBounds ==
    backup.swept
        => /\ Len(dir) <= MAX_BACKUPS
           /\ \A k \in 1..Len(dir) : ~TooOld(dir[k])

\* the sweep found more than MAX_BACKUPS > 0 artifacts, one of them too old,
\* and has left some
C15_Witness ==
    /\ backup.swept
    /\ MAX_BACKUPS > 0
    /\ Len(backup.files) > MAX_BACKUPS
    /\ \E f \in Found : TooOld(f)
    /\ dir # <<>>

\* C16: cleanOldBackups completes without throwing and leaves exactly the
\* artifacts it found that are neither beyond the MAX_BACKUPS newest nor too
\* old, so that the run goes on to report success.
C16_SweepRemovesUnion ==
    backup.swept
        => /\ ~backup.threw
           /\ Left = {f \in Found : ~BeyondCount(f) /\ ~TooOld(f)}

\* C17: once cleanOldBackups has run, running it again with the same clock and
\* settings throws nothing and leaves the directory as it is.
C17_SweepIdempotent ==
    backup.swept
        => cleanOldBackups(dir, now, MAX_BACKUPS, RETENTION_DAYS)
               = [dir |-> dir, threw |-> FALSE]

\* the sweep removed some of the artifacts it found and left others
C17_Witness ==
    /\ backup.swept
    /\ Left # Found
    /\ Left # {}

\* C18: the sweep removes an artifact only if it is too old or at least
\* MAX_BACKUPS artifacts are at least as new; when n artifacts are found, none
\* too old, and n > MAX_BACKUPS, exactly n - MAX_BACKUPS are removed, none of
\* them newer than one that is left, and MAX_BACKUPS are left; when
\* n <= MAX_BACKUPS and none is too old, nothing is removed.
C18_SweepRemovesOnlyViolators ==
    backup.swept
        => /\ \A f \in Found \ Left :
                \/ TooOld(f)
                \/ Cardinality({g \in Found \ {f} : g.time >= f.time}) >= MAX_BACKUPS
           /\ (\A f \in Found : ~TooOld(f))
                => /\ ~backup.threw
                   /\ IF Len(backup.files) > MAX_BACKUPS
                      THEN /\ Cardinality(Left) = MAX_BACKUPS
                           /\ Cardinality(Found \ Left) = Len(backup.files) - MAX_BACKUPS
                           /\ \A f \in Found \ Left : \A g \in Left : f.time <= g.time
                      ELSE Left = Found

\* the sweep found MaxFiles + 1 artifacts, none too old, with MAX_BACKUPS =
\* MaxFiles, and removed exactly the one that is older than all others
C18_Witness ==
    /\ backup.swept
    /\ MAX_BACKUPS = MaxFiles
    /\ Len(backup.files) = MaxFiles + 1
    /\ \A f \in Found : ~TooOld(f)
    /\ \E f \in Found :
          /\ Found \ Left = {f}
          /\ \A g \in Left : f.time < g.time

\* C19: no step of a run of backupDatabase changes the rows of system_status.
C19_BackupWritesNoRecord ==
    [][backup' # backup => system_status' = system_status]_vars

----------------------------------------------------------------------------
(* Properties of the audit table *)

IsPrefix(a, b) == Len(a) <= Len(b) /\ SubSeq(b, 1, Len(a)) = a

\* C20: every step of the monitor, of a backup run and of a manage-db-state
\* command leaves every row of system_status that existed before the step in
\* place and unchanged: a step only adds rows after them.
C20_AppendOnly ==
    [][IsPrefix(system_status, system_status')]_vars

\* the table holds, after the migration's row, a row of a manage-db-state
\* command, a row of a backup and a row of a monitor tick
C20_Witness ==
    /\ system_status[1] = InitialRow
    /\ \E k \in 2..Len(system_status) :
          system_status[k].last_known_state \in
              {"Manual database reset triggered", "Manual backup triggered", "command"}
    /\ \E k \in 2..Len(system_status) : system_status[k].last_known_state = "backup_file"
    /\ \E k \in 2..Len(system_status) : system_status[k].last_known_state = "snapshot"

\* C21: along the history error_count never decreases, and each row with
\* status 'error' has the error_count of the row before it plus one (so that
\* N consecutive 'error' rows add N).
C21_ErrorCountRuns ==
    \A k \in 2..Len(system_status) :
        /\ system_status[k].error_count >= system_status[k - 1].error_count
        /\ system_status[k].status = "error"
              => system_status[k].error_count = system_status[k - 1].error_count + 1

\* C22: what the last-backup query of a tick returns is the greatest non-NULL
\* last_backup_time of the table, and NULL only when no row has one.
C22_LatestBackupTime ==
    \A i \in TickIds :
        ticks[i].pc = "last_backup"
            => LastBackupQuery(system_status) =
                  IF NoBackupTime(system_status) THEN NULL
                  ELSE At(MaxOf(BackupTimes(system_status)))

\* C26: while the table holds no backup timestamp (every backup so far has
\* failed) a tick that reaches its last-backup query invokes backupDatabase;
\* once a backup has succeeded less than 24 hours ago, a tick that saw no data
\* loss invokes none.
C26_RetryUntilBackedUp ==
    [][\A i \in TickIds :
        ticks[i].pc = "last_backup" /\ ticks'[i] # ticks[i]
            => /\ NoBackupTime(system_status) => ticks'[i].nbackups > 0
               /\ (/\ ~NoBackupTime(system_status)
                   /\ now - MaxOf(BackupTimes(system_status)) <= DAY_MS
                   /\ ~HasDataLoss(ticks[i].state))
                     => ticks'[i].nbackups = 0]_vars

C28_TimestampMatchesStatus ==
    \A k \in 1..Len(system_status) :
        LET r == system_status[k]
        IN /\ r.last_reset_time # NULL <=> r.status = "reset"
           /\ r.last_backup_time # NULL <=> r.status = "backup"
           /\ r.last_restore_time # NULL <=> r.status = "restore"

\* the table holds a 'reset' row of log_system_event, a 'backup' row of the
\* backup's psql INSERT and a row inserted by the monitor
C28_Witness ==
    /\ \E k \in 1..Len(system_status) :
          system_status[k].via = "log_system_event" /\ system_status[k].status = "reset"
    /\ \E k \in 1..Len(system_status) :
          system_status[k].via = "psql" /\ system_status[k].status = "backup"
    /\ \E k \in 1..Len(system_status) :
          system_status[k].via = "insert" /\ system_status[k].status = "error"

\* C29: every row of the table was created by log_system_event.
C29_SoleWritePath ==
    \A k \in 1..Len(system_status) : system_status[k].via = "log_system_event"

\* C24: once the process has ended on a shutdown request the timer is cleared
\* and no execution of checkSystem was cut off: each one that had started has
\* run to its end.
C24_ShutdownLetsTickFinish ==
    mainpc = "exited"
        => /\ checkInterval = "null"
           /\ \A i \in TickIds : ticks[i].pc # "killed"

\* C25: every execution of checkSystem that is suspended ends (it resolves,
\* whatever failed in it, unless the process exits), and after each execution
\* started the next one eventually starts unless the process has exited on a
\* shutdown request.
C25_LoopSurvivesFailures ==
    /\ \A i \in TickIds : InFlight(i) ~> ticks[i].pc \in {"done", "killed"}
    /\ \A n \in 0..(MaxTicks - 1) :
          (started = n /\ mainpc # "exited") ~> (started = n + 1 \/ mainpc = "exited")

\* an execution recorded status 'error' after a failure, and the loop, still
\* running, has started its last execution
C25_Witness ==
    /\ \E k \in 1..Len(system_status) : system_status[k].snapshot_status = "error"
    /\ events > 0
    /\ mainpc = "running"
    /\ started = MaxTicks

\* C23: when getSystemStatus returns in the 'status' command, on a non-empty
\* table it has not failed for lack of rows and its result is a row whose
\* created_at is the greatest of the table; on an empty table the call does not
\* fail but returns nothing.
C23_LatestOrNone ==
    [][(cli.pc = "call" /\ cli.command = "status" /\ cli' # cli)
        => /\ system_status = <<>> => ~cli'.failed /\ cli'.output = <<>>
           /\ cli'.output # <<>>
                => /\ cli'.output[1] \in {system_status[k] : k \in 1..Len(system_status)}
                   /\ \A k \in 1..Len(system_status) :
                         system_status[k].created_at[1] <= cli'.output[1].created_at[1]]_vars

\* C30: a 'status' run that succeeds has printed a row of the table with the
\* greatest created_at; each count a 'health' run stores is the table's row
\* count at the time it is read, and a 'health' run that succeeds has printed
\* connected = true with the counts of all the tables; a run ends with exit
\* code 1 if it entered main's catch block (whether or not logging the error
\* succeeded) and with exit code 0 otherwise.
C30_CliOutputAndExit ==
    [][cli' # cli
        => /\ cli'.pc = "exited" => cli'.exit = (IF cli'.failed THEN "1" ELSE "0")
           /\ (cli.pc = "call" /\ cli.command = "status" /\ cli'.exit = "0")
                => /\ Len(cli'.output) = 1
                   /\ \E k \in 1..Len(system_status) : cli'.output[1] = system_status[k]
                   /\ \A k \in 1..Len(system_status) :
                         system_status[k].created_at[1] <= cli'.output[1].created_at[1]
           /\ (cli.pc = "count" /\ ~cli'.failed)
                => cli'.tableStats[CRITICAL_TABLES[cli.idx]] = rows[CRITICAL_TABLES[cli.idx]]
           /\ (cli.pc = "count" /\ cli'.exit = "0")
                => /\ cli'.output = <<[connected |-> TRUE, tableStats |-> cli'.tableStats]>>
                   /\ DOMAIN cli'.tableStats
                        = {CRITICAL_TABLES[k] : k \in 1..Len(CRITICAL_TABLES)}]_vars

\* a 'health' run stored a count, then a count failed, logging the error
\* failed too (the table is still empty), and the process ended with code 1
C30_Witness ==
    /\ cli.command = "health"
    /\ cli.pc = "exited"
    /\ DOMAIN cli.tableStats # {}
    /\ cli.failed
    /\ system_status = <<>>
    /\ cli.exit = "1"

\* C31: an execution of checkSystem calls backupDatabase at most once, and
\* while it awaits a backup every critical table has already been counted.
C31_BackupOnceAfterProbing ==
    \A i \in TickIds :
        /\ ticks[i].nbackups <= 1
        /\ ticks[i].pc \in {"loss_backup", "age_backup"}
              => ticks[i].idx = Len(CRITICAL_TABLES)

\* C32: the baseline changes only in the step that ends an execution of
\* checkSystem after the try block's updateSystemStatus has returned, and it
\* becomes that execution's snapshot; every other step of the monitor
\* (counting, comparing, backing up, start(), the SIGINT handler's stop()) and
\* every step of the scripts leaves it as it is.
C32_BaselineWrittenOnlyAtTickEnd ==
    [][lastKnownState' # lastKnownState
        => \E i \in TickIds :
              /\ ticks[i].pc = "save"
              /\ ticks'[i].pc = "done"
              /\ lastKnownState' = ticks[i].state]_vars

\* an execution has set the baseline, the timer has started a later one and
\* the SIGINT handler has stopped the monitor
C32_Witness ==
    /\ lastKnownState # NULL_STATE
    /\ mainpc = "exited"
    /\ started > 1

\* C33: when an execution of checkSystem, the only one in progress, counts a
\* table whose latest count (by an earlier execution) raised a data-loss
\* warning and finds the same count again, it raises no data-loss warning for
\* the table and calls no data-loss backup.
C33_DropReportedOnce ==
    [][\A i \in TickIds :
        (/\ ticks[i].pc = "count"
         /\ ticks'[i] # ticks[i]
         /\ \A j \in TickIds \ {i} : ~InFlight(j)
         /\ Table(i) \in DOMAIN ticks'[i].state.tables
         /\ observed.warned[Table(i)] = At(ticks'[i].state.tables[Table(i)]))
            => /\ ticks'[i].state.warnings = ticks[i].state.warnings
               /\ ticks'[i].pc # "loss_backup"]_vars

\* C34: once stop() has been called, no execution of checkSystem starts.
C34_NoTickAfterStop ==
    [][observed.stopCalled => started' = started]_vars

\* C35: whenever the baseline is replaced, the lastCheck of the new baseline is
\* not earlier than the lastCheck of the one it replaces.
C35_BaselineNeverOlder ==
    [][(lastKnownState # NULL_STATE /\ lastKnownState' # lastKnownState)
        => lastKnownState'.lastCheck >= lastKnownState.lastCheck]_vars

\* C36: when a run of backupDatabase has returned success, the file it wrote
\* is in the backup directory and is not empty.
C36_SuccessKeepsArtifact ==
    backup.result = "success"
        => \E k \in 1..Len(dir) : dir[k].name = backup.path /\ dir[k].size > 0

\* C37: every row of system_status that carries a backup timestamp was written
\* by a run of backupDatabase, after that run had written and verified its
\* artifact.
C37_BackupTimeMeansArtifact ==
    \A k \in 1..Len(system_status) :
        system_status[k].last_backup_time # NULL
            => /\ system_status[k].via = "psql"
               /\ system_status[k].last_known_state = "backup_file"

\* C38: no step of a 'status' or 'health' command, whether the command
\* succeeds or fails, changes the rows of system_status.
C38_ReadOnlyCommands ==
    [][(cli.command \in {"status", "health"} /\ cli.pc # "exited" /\ cli' # cli)
        => system_status' = system_status]_vars

\* C39: checkDatabase has every count call outstanding at once and decides
\* only when all have returned; past that point it has called backupDatabase
\* once if some table's count is exactly 0 and not at all otherwise (a count
\* that failed is no 0); if the health query failed it has called none.
C39_BackupIffSomeTableEmpty ==
    LET joined == \A t \in CheckTables :
                      t \in DOMAIN check.tableChecks /\ check.tableChecks[t].returned
        someZero == \E t \in DOMAIN check.tableChecks : check.tableChecks[t].count = At(0)
    IN /\ check.pc = "counts" => DOMAIN check.tableChecks = CheckTables
       /\ check.backups \in {0, 1}
       /\ check.backups = 1 => joined
       /\ check.pc \in {"backup", "reset_check"} \/ check.exit = "0"
             => joined /\ (check.backups = 1 <=> someZero)
       /\ check.exit = "1" => check.backups = 0 /\ DOMAIN check.tableChecks = {}

\* checkDatabase has ended after one backup: one count had failed and another
\* was 0
C39_Witness ==
    /\ check.pc = "exited"
    /\ check.backups = 1
    /\ \E t \in DOMAIN check.tableChecks : check.tableChecks[t].error
    /\ \E t \in DOMAIN check.tableChecks : check.tableChecks[t].count = At(0)

----------------------------------------------------------------------------
(* Properties of run-migration.ts *)

\* the statements of an SQL text: its pieces between the separators that stand
\* outside dollar quotes, trimmed, the empty ones left out
RECURSIVE SqlSplitFrom(_, _, _)
SqlSplitFrom(rest, piece, quoted) ==
    IF rest = <<>> THEN <<piece>>
    ELSE IF Head(rest) = ";" /\ ~quoted
    THEN <<piece>> \o SqlSplitFrom(Tail(rest), <<>>, FALSE)
    ELSE SqlSplitFrom(Tail(rest), Append(piece, Head(rest)),
                      IF Head(rest) = "$" THEN ~quoted ELSE quoted)

SqlStatements(sql) ==
    LET pieces == SqlSplitFrom(sql, <<>>, FALSE)
    IN SelectSeq([k \in 1..Len(pieces) |-> Trim(pieces[k])], NonEmpty)

\* every dollar quote of the text is closed
Balanced(sql) == Len(SelectSeq(sql, LAMBDA c : c = "$")) % 2 = 0

\* C40: for a file whose dollar quotes are closed, what runMigration has sent
\* to execute_sql so far is a prefix of the statements of the file, in their
\* order and each once, and when the run has ended with code 0 it is all of
\* them, whichever of them failed.
C40_EveryStatementOnceInOrder ==
    Balanced(migration.sql)
        => /\ IsPrefix(migration.executed, SqlStatements(migration.sql))
           /\ migration.exit = "0" => migration.executed = SqlStatements(migration.sql)

====
